---------------------------- MODULE Spec2Model ----------------------------
(***************************************************************************)
(* A model of lab_5_scraper/scraper.py: Config construction and            *)
(* validation, make_request, Crawler.find_articles with _extract_url, and  *)
(* HTMLParser.parse.                                                       *)
(*                                                                         *)
(* Four specifications share the variables:                                *)
(*   Spec        one run of Crawler.find_articles on a fresh Crawler       *)
(*   FairSpec    the same run, with the interpreter always taking its      *)
(*               next step                                                 *)
(*   SpecConfig  one construction Config(path_to_config)                   *)
(*   SpecParser  HTMLParser(full_url, article_id, config).parse()          *)
(***************************************************************************)
EXTENDS Integers, Sequences, FiniteSets, TLC

VARIABLES
    \* ---- Config(path_to_config) ----
    config_data,    \* the JSON object read from path_to_config
    cfgPc,          \* "new" | "ready" | "raised"
    cfgErr,         \* the exception Config.__init__ raised, or "none"
    instance,       \* the private fields of the Config instance, or NoInstance
    \* ---- Crawler ----
    seed_urls,      \* config.get_seed_urls()
    num_articles,   \* config.get_num_articles()
    web,            \* what requests.get does for each seed URL
    urls,           \* Crawler.urls
    pc,             \* position inside find_articles
    seedIdx,        \* index of the for loop over get_search_urls()
    response,       \* the local `response`
    extracted_url,  \* the local `extracted_url`
    err,            \* the exception find_articles raised, or "none"
    fetchLog,       \* one entry per make_request call: len(urls) at the call
    \* ---- HTMLParser ----
    parser_args,    \* the arguments full_url and article_id of HTMLParser
    article_page,   \* the article page behind full_url
    parserPc,       \* "new" | "constructed" | "parsed"
    article,        \* HTMLParser.article
    parseResult     \* what parse() returned

configVars  == <<config_data, cfgPc, cfgErr, instance>>
crawlerVars == <<seed_urls, num_articles, web, urls, pc, seedIdx, response,
                 extracted_url, err, fetchLog>>
parserVars  == <<parser_args, article_page, parserPc, article, parseResult>>
vars == <<configVars, crawlerVars, parserVars>>

(***************************************************************************)
(* Bounds of the model.                                                    *)
(***************************************************************************)
MaxSeeds == 2       \* longest seed_urls list
MaxLinks == 2       \* most item__title entries on one seed page
MaxArticles == 2    \* largest target count tried
MaxArticleId == 2   \* largest article_id tried

\* Limits written in _validate_config_content.
MinArticles == 1
MaxArticlesAllowed == 150
TimeoutLimit == 60

SeedNames == {"https://seed/1", "https://seed/2"}
Hrefs == {"/a", "/b"}

NoInstance == [exists |-> FALSE]
NoResponse == [kind |-> "none"]
None == "None"

Range(s) == {s[i] : i \in 1..Len(s)}
SeqsUpTo(S, n) == UNION {[1..k -> S] : k \in 0..n}


(***************************************************************************)
(* make_request and the seed pages.  requests.get either raises or returns *)
(* a response; a response with a non-success status is returned like any   *)
(* other, nothing calls raise_for_status.  Of a page the crawler reads two *)
(* things: whether the attribute lookup article_bs.findall resolves to a   *)
(* callable (bs4 resolves an unknown attribute to find(<name>), which is   *)
(* None unless the page holds a <findall> element), and the item__title    *)
(* entries that call then returns, each identified by the href of its <a>. *)
(***************************************************************************)
RequestExceptions == {"ConnectionError", "Timeout"}

RaisingOutcomes == [kind : {"raise"}, exc : RequestExceptions]

OkPages ==
    [kind : {"page"}, status : {200}, findallTag : BOOLEAN,
     hrefs : SeqsUpTo(Hrefs, MaxLinks)]

ErrorPages ==
    {[kind |-> "page", status |-> 404, findallTag |-> FALSE, hrefs |-> <<>>]}

Outcomes == RaisingOutcomes \cup OkPages \cup ErrorPages

\* requests.get(url=url, headers=..., timeout=..., verify=...)
make_request(url) == web[url]

(***************************************************************************)
(* Crawler._extract_url.  A result is either a raised exception or the     *)
(* returned string.                                                        *)
(***************************************************************************)
Raise(e) == [raised |-> TRUE, exc |-> e, value |-> ""]
Return(v) == [raised |-> FALSE, exc |-> "none", value |-> v]

base_link == "https://kray-dorogobuzhskiy.rf"

\* article_bs.findall('div', {'class': 'item__title'})
FindAll(page) ==
    IF page.findallTag THEN Return(page.hrefs) ELSE Raise("TypeError")

\* A corrected lookup, art.find('a')['href'].
FindHrefOfAnchor(art) == Return(art)

\* href = art.find('a'['href']): the subscript 'a'['href'] is evaluated first
\* and indexes a str with a str.
FindHref(art) == Raise("TypeError")

\* The for loop of _extract_url from entry i on, base being the local
\* base_link, which `base_link += href` grows on every iteration.
RECURSIVE ExtractLoop(_, _, _, _)
ExtractLoop(articles, i, base, us) ==
    IF i > Len(articles) THEN Return("")
    ELSE LET href == FindHref(articles[i]) IN
         IF href.raised THEN href
         ELSE LET joined == base \o href.value IN
              IF joined \notin Range(us) THEN Return(joined)
              ELSE ExtractLoop(articles, i + 1, joined, us)

_extract_url(page, us) ==
    LET articles == FindAll(page) IN
    IF articles.raised THEN articles
    ELSE ExtractLoop(articles.value, 1, base_link, us)

(***************************************************************************)
(* Crawler.find_articles, one step per statement.                          *)
(***************************************************************************)
\* An unconditional append.
AppendAlways(us, u) == Append(us, u)

\* if extracted_url not in self.urls: self.urls.append(extracted_url)
AppendIfNew(us, u) == IF u \notin Range(us) THEN Append(us, u) ELSE us

\* A loop that handles the page once and goes on to the next seed.
BreakAfterOne == "for"

\* `while True:` has no break and no return: after the body, the body again.
WhileTrue == "extract"

InitCrawler ==
    /\ seed_urls \in SeqsUpTo(SeedNames, MaxSeeds)
    /\ num_articles \in 1..MaxArticles
    /\ web \in [SeedNames -> Outcomes]
    /\ urls = <<>>
    /\ pc = "for"
    /\ seedIdx = 0
    /\ response = NoResponse
    /\ extracted_url = None
    /\ err = "none"
    /\ fetchLog = <<>>

\* for seed_url in self.get_search_urls():
ForSeed ==
    /\ pc = "for"
    /\ IF seedIdx < Len(seed_urls)
       THEN seedIdx' = seedIdx + 1 /\ pc' = "request"
       ELSE seedIdx' = seedIdx /\ pc' = "done"
    /\ UNCHANGED <<seed_urls, num_articles, web, urls, response,
                   extracted_url, err, fetchLog>>
    /\ UNCHANGED <<configVars, parserVars>>

\* response = make_request(seed_url, self.config)
\* if len(self.urls) < self.config.get_num_articles():
Request ==
    /\ pc = "request"
    /\ fetchLog' = Append(fetchLog, Len(urls))
    /\ LET r == make_request(seed_urls[seedIdx]) IN
       IF r.kind = "raise"
       THEN pc' = "raised" /\ err' = r.exc /\ response' = response
       ELSE /\ response' = r
            /\ err' = err
            /\ pc' = IF Len(urls) < num_articles THEN "extract" ELSE "for"
    /\ UNCHANGED <<seed_urls, num_articles, web, urls, seedIdx, extracted_url>>
    /\ UNCHANGED <<configVars, parserVars>>

\* extracted_url = self._extract_url(BeautifulSoup(response.text, 'lxml'))
Extract ==
    /\ pc = "extract"
    /\ LET r == _extract_url(response, urls) IN
       IF r.raised
       THEN pc' = "raised" /\ err' = r.exc /\ extracted_url' = extracted_url
       ELSE pc' = "test" /\ err' = err /\ extracted_url' = r.value
    /\ UNCHANGED <<seed_urls, num_articles, web, urls, seedIdx, response,
                   fetchLog>>
    /\ UNCHANGED <<configVars, parserVars>>

\* if extracted_url not in self.urls: self.urls.append(extracted_url)
AppendUrl ==
    /\ pc = "test"
    /\ urls' = AppendIfNew(urls, extracted_url)
    /\ pc' = WhileTrue
    /\ UNCHANGED <<seed_urls, num_articles, web, seedIdx, response,
                   extracted_url, err, fetchLog>>
    /\ UNCHANGED <<configVars, parserVars>>


(***************************************************************************)
(* Config.  A JSON value is modelled by its Python type and, for a number, *)
(* ten times its value (so that 2.5 is representable).                     *)
(***************************************************************************)
JInt(n) == [type |-> "int", x10 |-> 10 * n]
JFloat(tenths) == [type |-> "float", x10 |-> tenths]
JBool(b) == [type |-> "bool", x10 |-> IF b THEN 10 ELSE 0]
JStr == [type |-> "str", x10 |-> 0]
JDict == [type |-> "dict", x10 |-> 0]
JList == [type |-> "list", x10 |-> 0]

\* Python's ordering comparisons with an int are defined for int, float, bool.
IsNumber(v) == v.type \in {"int", "float", "bool"}
\* isinstance(v, int): bool is a subclass of int.
IsInstanceInt(v) == v.type \in {"int", "bool"}

\* `p in s` for two str values.
Contains(s, p) ==
    \E i \in 1..(Len(s) - Len(p) + 1) : SubSeq(s, i, i + Len(p) - 1) = p

StartsWith(s, p) == Len(s) >= Len(p) /\ SubSeq(s, 1, Len(p)) = p

\* re.match(r"https?://(www.)?", url): the trailing group is optional.
MatchesUrlPattern(url) ==
    StartsWith(url, "http://") \/ StartsWith(url, "https://")

UrlPatternText == "https?://(www.)?"

\* for url in config_data['seed_urls']:
\*     if "https?://(www.)?" not in url: raise IncorrectSeedURLError
CheckSeedUrls(cd) ==
    IF \E i \in 1..Len(cd.seed_urls) : ~Contains(cd.seed_urls[i], UrlPatternText)
    THEN "IncorrectSeedURLError" ELSE "ok"

\* if n < 1 or n > 150: raise NumberOfArticlesOutOfRangeError
CheckNumberRange(cd) ==
    LET n == cd.total_articles_to_find_and_parse IN
    IF ~IsNumber(n) THEN "TypeError"
    ELSE IF n.x10 < 10 * MinArticles \/ n.x10 > 10 * MaxArticlesAllowed
         THEN "NumberOfArticlesOutOfRangeError" ELSE "ok"

\* if not isinstance(n, int) or n < 0: raise IncorrectNumberOfArticlesError
CheckNumberType(cd) ==
    LET n == cd.total_articles_to_find_and_parse IN
    IF ~IsInstanceInt(n) \/ n.x10 < 0
    THEN "IncorrectNumberOfArticlesError" ELSE "ok"

\* if not isinstance(config_data['headers', dict]): the subscript is the tuple
\* ('headers', dict), which is no key of the object.
CheckHeaders(cd) == "KeyError"

\* if not isinstance(config_data['encoding'], str): raise IncorrectEncodingError
CheckEncoding(cd) ==
    IF cd.encoding.type # "str" THEN "IncorrectEncodingError" ELSE "ok"

\* if not isinstance(t, int) or not (t < 60 and t > 0): raise IncorrectTimeoutError
CheckTimeout(cd) ==
    IF ~IsInstanceInt(cd.timeout)
       \/ ~(cd.timeout.x10 < 10 * TimeoutLimit /\ cd.timeout.x10 > 0)
    THEN "IncorrectTimeoutError" ELSE "ok"

\* if not isinstance(config_data['should_verify_sertificate', bool]): as for
\* the headers, the subscript is a tuple.
CheckVerify(cd) == "KeyError"

\* The checks in the order of the code; the first that raises ends the call.
_validate_config_content(cd) ==
    LET checks == <<CheckSeedUrls(cd), CheckNumberRange(cd), CheckNumberType(cd),
                    CheckHeaders(cd), CheckEncoding(cd), CheckTimeout(cd),
                    CheckVerify(cd)>>
        failed == {i \in 1..Len(checks) : checks[i] # "ok"}
    IN  IF failed = {} THEN "ok"
        ELSE checks[CHOOSE i \in failed : \A j \in failed : i <= j]

\* config = self._extract_config_content() and the seven assignments.
_extract_config_content(cd) ==
    [exists |-> TRUE,
     _seed_urls |-> cd.seed_urls,
     _num_articles |-> cd.total_articles_to_find_and_parse,
     _headers |-> cd.headers,
     _encoding |-> cd.encoding,
     _timeout |-> cd.timeout,
     _should_varify_certificate |-> cd.should_verify_certificate,
     _headless_mode |-> cd.headless_mode]

SeedUrlSamples ==
    {"https://example.com/list",
     "https?://(www.)?example.com",
     "http://www.example.com/https?://(www.)?",
     "ftp://example.com"}

NumberSamples ==
    {JInt(0 - 1), JInt(0), JInt(1), JInt(MaxArticlesAllowed),
     JInt(MaxArticlesAllowed + 1), JFloat(25), JStr}

TimeoutSamples == {JInt(0), JInt(30), JInt(TimeoutLimit), JStr}

ConfigSources ==
    [seed_urls : SeqsUpTo(SeedUrlSamples, MaxSeeds),
     total_articles_to_find_and_parse : NumberSamples,
     headers : {JDict, JList},
     encoding : {JStr, JInt(8)},
     timeout : TimeoutSamples,
     should_verify_certificate : {JBool(TRUE), JStr},
     headless_mode : {JBool(FALSE)}]

InitConfig ==
    /\ config_data \in ConfigSources
    /\ cfgPc = "new"
    /\ cfgErr = "none"
    /\ instance = NoInstance

\* A constructor that skips line 59 and only extracts and assigns.
ConfigInitUnvalidated ==
    /\ cfgPc = "new"
    /\ instance' = _extract_config_content(config_data)
    /\ cfgPc' = "ready"
    /\ UNCHANGED <<config_data, cfgErr>>
    /\ UNCHANGED <<crawlerVars, parserVars>>

\* Config.__init__: validate, then extract and assign the fields.
ConfigInit ==
    /\ cfgPc = "new"
    /\ LET v == _validate_config_content(config_data) IN
       IF v # "ok"
       THEN cfgPc' = "raised" /\ cfgErr' = v /\ instance' = instance
       ELSE /\ instance' = _extract_config_content(config_data)
            /\ cfgPc' = "ready"
            /\ cfgErr' = cfgErr
    /\ UNCHANGED config_data
    /\ UNCHANGED <<crawlerVars, parserVars>>

(***************************************************************************)
(* HTMLParser.                                                             *)
(***************************************************************************)
ArticlePages ==
    [fetchOk : BOOLEAN, parseable : BOOLEAN, hasContent : BOOLEAN,
     hasTitle : BOOLEAN, hasAuthor : BOOLEAN,
     date : {"absent", "garbled", "valid"}]

InitParser ==
    /\ parser_args \in [full_url : {base_link \o h : h \in Hrefs},
                        article_id : 1..MaxArticleId]
    /\ article_page \in ArticlePages
    /\ parserPc = "new"
    /\ article = None
    /\ parseResult = "not called"

\* HTMLParser.__init__: self.article = Article(full_url, article_id)
HTMLParserInit ==
    /\ parserPc = "new"
    /\ article' = [url |-> parser_args.full_url,
                   article_id |-> parser_args.article_id,
                   text |-> ""]
    /\ parserPc' = "constructed"
    /\ UNCHANGED <<parser_args, article_page, parseResult>>
    /\ UNCHANGED <<configVars, crawlerVars>>

\* HTMLParser.parse: the body is the docstring alone, so the call requests
\* nothing, fills nothing and returns None.
Parse ==
    /\ parserPc = "constructed"
    /\ parseResult' = None
    /\ parserPc' = "parsed"
    /\ UNCHANGED <<parser_args, article_page, article>>
    /\ UNCHANGED <<configVars, crawlerVars>>

(***************************************************************************)
(* The specifications.  A component that a specification does not run      *)
(* stays in its idle state.                                                *)
(***************************************************************************)
IdleConfig ==
    /\ config_data = None
    /\ cfgPc = "idle"
    /\ cfgErr = "none"
    /\ instance = NoInstance

IdleCrawler ==
    /\ seed_urls = <<>>
    /\ num_articles = 1
    /\ web = None
    /\ urls = <<>>
    /\ pc = "idle"
    /\ seedIdx = 0
    /\ response = NoResponse
    /\ extracted_url = None
    /\ err = "none"
    /\ fetchLog = <<>>

IdleParser ==
    /\ parser_args = None
    /\ article_page = None
    /\ parserPc = "idle"
    /\ article = None
    /\ parseResult = "not called"

Init == InitCrawler /\ IdleConfig /\ IdleParser
Next == ForSeed \/ Request \/ Extract \/ AppendUrl
Spec == Init /\ [][Next]_vars

\* The interpreter runs find_articles to its end: a step that can be taken is
\* taken.
FairSpec == Spec /\ WF_vars(Next)

ConfigSpecInit == InitConfig /\ IdleCrawler /\ IdleParser
ConfigNext == ConfigInit
SpecConfig == ConfigSpecInit /\ [][ConfigNext]_vars

ParserNext == HTMLParserInit \/ Parse
ParserSpecInit == InitParser /\ IdleConfig /\ IdleCrawler
SpecParser == ParserSpecInit /\ [][ParserNext]_vars


(***************************************************************************)
(* Properties of Crawler.find_articles.                                    *)
(***************************************************************************)
\* C1: in every state of a find_articles run, and in its result, Crawler.urls
\* holds at most config.get_num_articles() entries.
QuotaInvariant == Len(urls) <= num_articles

\* The run stands inside the while loop with urls filled up to the quota.
QuotaReachedInLoop ==
    pc = "extract" /\ Len(urls) = num_articles /\ Len(fetchLog) >= 1

\* C2: in every state of a find_articles run, no value occurs at two different
\* positions of Crawler.urls.
NoDuplicateUrls ==
    \A i, j \in 1..Len(urls) : i # j => urls[i] # urls[j]

\* _extract_url has returned a value that urls already holds, and the test of
\* line 245 is about to skip it.
RepeatedLinkAtTest == pc = "test" /\ extracted_url \in Range(urls)

\* C3: find_articles eventually ends, for every list of seeds and every page
\* content: each run reaches the end of the for loop (or leaves by an
\* exception).
FindArticlesTerminates == <>(pc \in {"done", "raised"})

\* C4: every make_request of a find_articles run is issued in a state where
\* len(urls) < num_articles; once the quota is reached no seed is fetched.
FetchOnlyBelowQuota ==
    \A i \in 1..Len(fetchLog) : fetchLog[i] < num_articles

\* The quota is reached after a fetch, and a configured seed is still unfetched.
QuotaReachedSeedsLeft ==
    /\ Len(urls) = num_articles
    /\ Len(fetchLog) >= 1
    /\ seedIdx < Len(seed_urls)

\* C5: a failing make_request for a seed page does not make find_articles
\* raise: the run never ends in the exception requests.get raised.
SeedFetchFailureNotRaised == ~(pc = "raised" /\ err \in RequestExceptions)

\* The links the seed pages expose, in seed order and then page order, each
\* the site base joined with that one link's href.
RECURSIVE LinksFrom(_)
LinksFrom(i) ==
    IF i > Len(seed_urls) THEN <<>>
    ELSE LET r == web[seed_urls[i]] IN
         (IF r.kind = "page"
          THEN [k \in 1..Len(r.hrefs) |-> base_link \o r.hrefs[k]]
          ELSE <<>>) \o LinksFrom(i + 1)

RECURSIVE FirstDistinct(_, _, _)
FirstDistinct(links, acc, n) ==
    IF links = <<>> \/ Len(acc) = n THEN acc
    ELSE FirstDistinct(Tail(links),
                       IF Head(links) \in Range(acc) THEN acc
                       ELSE Append(acc, Head(links)),
                       n)

ExpectedUrls == FirstDistinct(LinksFrom(1), <<>>, num_articles)

AllSeedsFetched ==
    \A i \in 1..Len(seed_urls) :
        web[seed_urls[i]].kind = "page" /\ web[seed_urls[i]].status = 200

\* C9: over seed pages that are all fetched, find_articles ends without an
\* error and leaves in urls the first min(num_articles, N) distinct links in
\* first-seen order, each the site base joined with its href.
DiscoveryResult ==
    AllSeedsFetched =>
        /\ pc # "raised"
        /\ pc = "done" => urls = ExpectedUrls

(***************************************************************************)
(* Properties of Config.  The rules are those the docstrings of the seven  *)
(* error classes state.                                                    *)
(***************************************************************************)
CountOutOfRange(n) ==
    n.type = "int" /\ (n.x10 < 10 * MinArticles \/ n.x10 > 10 * MaxArticlesAllowed)

CountIncorrect(n) == n.type # "int" \/ n.x10 < 0

\* The errors the rules allow for each field that breaks its rule.
ErrorsFor(cd) ==
    [seed_urls |->
        IF \E i \in 1..Len(cd.seed_urls) : ~MatchesUrlPattern(cd.seed_urls[i])
        THEN {"IncorrectSeedURLError"} ELSE {},
     total_articles_to_find_and_parse |->
        (IF CountOutOfRange(cd.total_articles_to_find_and_parse)
         THEN {"NumberOfArticlesOutOfRangeError"} ELSE {})
        \cup (IF CountIncorrect(cd.total_articles_to_find_and_parse)
              THEN {"IncorrectNumberOfArticlesError"} ELSE {}),
     headers |->
        IF cd.headers.type # "dict" THEN {"IncorrectHeadersError"} ELSE {},
     encoding |->
        IF cd.encoding.type # "str" THEN {"IncorrectEncodingError"} ELSE {},
     timeout |->
        IF cd.timeout.type # "int"
           \/ ~(0 < cd.timeout.x10 /\ cd.timeout.x10 < 10 * TimeoutLimit)
        THEN {"IncorrectTimeoutError"} ELSE {},
     should_verify_certificate |->
        IF cd.should_verify_certificate.type # "bool"
        THEN {"IncorrectVerifyError"} ELSE {}]

InvalidFields(cd) ==
    {f \in DOMAIN ErrorsFor(cd) : ErrorsFor(cd)[f] # {}}

Constructed == cfgPc \in {"ready", "raised"}

\* C6: when exactly one field of the configuration breaks its rule,
\* construction fails with the error of that field and with no other
\* exception.
DistinctErrorPerField ==
    (Constructed /\ Cardinality(InvalidFields(config_data)) = 1) =>
        \A f \in InvalidFields(config_data) :
            cfgPc = "raised" /\ cfgErr \in ErrorsFor(config_data)[f]

\* C7: a Config instance exists only if every field passed validation, and
\* construction, whatever its outcome, has issued no request.
ValidationGatesInstance ==
    /\ instance.exists =>
          /\ cfgPc = "ready"
          /\ _validate_config_content(config_data) = "ok"
          /\ InvalidFields(config_data) = {}
    /\ cfgPc # "ready" => ~instance.exists
    /\ fetchLog = <<>>

\* Construction has ended on a configuration with an invalid field: no
\* instance, no request.
RejectedWithoutInstance ==
    /\ cfgPc = "raised"
    /\ InvalidFields(config_data) # {}
    /\ ~instance.exists
    /\ fetchLog = <<>>

\* C8: the seed URL rule is a pattern match: construction is rejected with
\* IncorrectSeedURLError exactly when some seed URL does not match the URL
\* pattern, so seed URLs that match it are never the reason of a rejection.
SeedUrlRuleIsPatternMatch ==
    Constructed =>
        ((cfgErr = "IncorrectSeedURLError") <=>
             (\E i \in 1..Len(config_data.seed_urls) :
                  ~MatchesUrlPattern(config_data.seed_urls[i])))

(***************************************************************************)
(* Properties of HTMLParser.                                               *)
(***************************************************************************)
IsArticleRecord(r) == r # None /\ r # "not called"

\* C10: parse on a page that is fetched and is parseable markup returns an
\* article record, whatever content container, metadata fields or date the
\* page holds.
ParseReturnsArticle ==
    (parserPc = "parsed" /\ article_page.fetchOk /\ article_page.parseable) =>
        IsArticleRecord(parseResult)

=============================================================================
